---------------------------- MODULE Spec2Model ----------------------------
(***************************************************************************)
(* State-machine model of src/src/scbe-envelope.ts: the SCBE envelope      *)
(* (SCBEEnvelope), the policy registry and gate pipeline (SCBEVerifier).   *)
(*                                                                         *)
(* Representation.                                                         *)
(*  - A JavaScript object (ctx, intent, trajectory, aad, commit, crypto,   *)
(*    sig) is a sequence of <<key, value>> pairs in insertion order; the   *)
(*    value undefined of an optional member is the empty sequence.         *)
(*  - Fields hold values of their declared TypeScript type; numbers are    *)
(*    finite.  Times are whole seconds and phase_deg whole degrees; the    *)
(*    threatLevel and harmonic arguments of the constructors are           *)
(*    fixed-point like the [0,1] quantities, and Math.floor takes their    *)
(*    whole part.                                                          *)
(*  - The real-valued [0,1] quantities (entropy, server_load, stability,   *)
(*    trust, validity, alpha) are fixed-point numbers in units of 1/Unit,  *)
(*    products rounded to the nearest unit.                                *)
(*  - trajectory.period_s is a positive length, so the quotient            *)
(*    elapsed / period_s is a rational number; the phase comparison is     *)
(*    carried out exactly, scaled by period_s.                             *)
(*  - sha256 is an injective tagging of its input (collision-free hash).   *)
(*    The leading 32-bit word of a digest is not computable here: it is    *)
(*    drawn when the digest is first taken and remembered (words), so that *)
(*    equal inputs give equal words and nothing else is assumed of them.   *)
(*  - A base64 string is named by the bytes it encodes.                    *)
(*  - The human-readable `error` text of a VerificationResult is omitted.  *)
(***************************************************************************)
EXTENDS Integers, Sequences, FiniteSets, TLC

VARIABLES
    allowedIntents,   \* SCBEVerifier.allowedIntents : Map<string, string[]>
    trustScores,      \* SCBEVerifier.trustScores    : Map<string, number>
    env,              \* the SCBEEnvelope handed to the verifier
    stamped,          \* history: the four sections as of the last computeCommits
    now,              \* Math.floor(Date.now() / 1000)
    res,              \* result of the last verifyFull call (with the gates it ran)
    last,             \* history: the last registry operation and what it read
    run,              \* history: per route, zero-validity updates since setTrust
    registered,       \* history: per (primary, modifier, harmonic), the routes
                      \*          of its latest registerIntent
    steps,            \* number of budgeted caller operations so far
    words,            \* the first 32 bits of the sha256 digests taken so far
    noise,            \* outcome of the last generateNoiseResponse call
    sent,             \* history: the noise responses returned so far
    lastReg,          \* history: the last registerIntent call and the
                      \*          registry it was made on
    made,             \* the last value an SCBEEnvelope method returned
    tasks,            \* OrchestratorService.executeTask: per request, where
                      \*          it stands and what it has read
    applied           \* history: the setTrust / updateTrust calls made by the
                      \*          orchestrator, in the order they ran

noiseVars == <<words, noise, sent>>

loopVars == <<tasks, applied>>

vars ==
    <<allowedIntents, trustScores, env, stamped, now, res, last, run,
      registered, steps, words, noise, sent, lastReg, made, tasks, applied>>

-----------------------------------------------------------------------------
(* Bounds of the exploration *)

MaxSteps == 2

\* setTrust / updateTrust calls in a trust-table run
MaxCalls == 6

\* noise responses returned in a fail-to-noise run
MaxResponses == 2

\* requests the orchestrator takes in
MaxTasks == 2

-----------------------------------------------------------------------------
(* Numbers *)

Unit == 1000

Abs(x) == IF x < 0 THEN -x ELSE x

Min2(a, b) == IF a < b THEN a ELSE b

Max2(a, b) == IF a < b THEN b ELSE a

\* JavaScript a % b for b > 0: the remainder takes the sign of the dividend.
JsRem(a, b) == IF a >= 0 THEN a % b ELSE -((-a) % b)

\* a / b rounded to the nearest integer (b > 0), the rounding of a product
\* of two fixed-point numbers back to one unit.
\* Math.floor of a fixed-point number, as a whole number
MathFloor(x) == x \div Unit

RoundDiv(a, b) == (2 * a + b) \div (2 * b)

-----------------------------------------------------------------------------
(* JavaScript objects *)

Undefined == <<>>

IsSet(o) == o # Undefined

Keys(o) == {o[i][1] : i \in 1..Len(o)}

Get(o, k) == o[CHOOSE i \in 1..Len(o) : o[i][1] = k][2]

\* o[k] = v on an object that has the property k: the position is kept.
With(o, k, v) == [i \in 1..Len(o) |-> IF o[i][1] = k THEN <<k, v>> ELSE o[i]]

\* Every property name of the envelope's objects, in UTF-16 code-unit order,
\* the order Array.prototype.sort gives.
KeyOrder ==
    <<"aad_sha256", "cipher_b64", "ctx_sha256", "device_id", "entropy",
      "epoch", "h", "harmonic", "intent_sha256", "kem", "modifier",
      "orchestrator_sig_b64", "period_s", "phase_deg", "primary",
      "provider_sig_b64", "route_hint", "run_id", "salt_q_b64",
      "server_load", "sig", "slot_id", "stability", "step_no",
      "threat_level", "traj_sha256", "ts", "waypoint">>

NumericKeys ==
    {"ts", "threat_level", "entropy", "server_load", "stability", "harmonic",
     "phase_deg", "epoch", "period_s", "waypoint", "step_no"}

\* JSON.stringify of a property value: a number in decimal, a string quoted.
JsonValue(k, v) == IF k \in NumericKeys THEN ToString(v) ELSE "\"" \o v \o "\""

RECURSIVE JsonMembers(_, _)
JsonMembers(o, i) ==
    IF i > Len(o) THEN ""
    ELSE (IF i > 1 THEN "," ELSE "")
         \o "\"" \o o[i][1] \o "\":" \o JsonValue(o[i][1], o[i][2])
         \o JsonMembers(o, i + 1)

JsonStringify(o) == "{" \o JsonMembers(o, 1) \o "}"

\* Object.keys(obj).sort()
SortedKeys(o) == LET ks == Keys(o) IN SelectSeq(KeyOrder, LAMBDA k : k \in ks)

\* canonicalize that serializes the keys in the order they were set.
canonicalize_Unsorted(o) == JsonStringify(o)

canonicalize(o) ==
    LET ks == SortedKeys(o)
        sorted == [i \in 1..Len(ks) |-> <<ks[i], Get(o, ks[i])>>]
    IN  JsonStringify(sorted)

sha256Hex(data) == "sha256(" \o data \o ")"

clamp(value, min, max) == Max2(min, Min2(max, value))

-----------------------------------------------------------------------------
(* SCBEEnvelope *)

createContext(ts, deviceId, threatLevel, entropy, serverLoad, stability) ==
    << <<"ts", ts>>,
       <<"device_id", deviceId>>,
       <<"threat_level", Max2(1, Min2(5, MathFloor(threatLevel)))>>,
       <<"entropy", clamp(entropy, 0, Unit)>>,
       <<"server_load", clamp(serverLoad, 0, Unit)>>,
       <<"stability", clamp(stability, 0, Unit)>> >>

createIntent(primary, modifier, harmonic, phaseDeg) ==
    << <<"primary", primary>>,
       <<"modifier", modifier>>,
       <<"harmonic", Max2(1, Min2(7, MathFloor(harmonic)))>>,
       <<"phase_deg", JsRem(phaseDeg, 360)>> >>

createTrajectory(epoch, periodS, slotId, waypoint) ==
    << <<"epoch", epoch>>,
       <<"period_s", periodS>>,
       <<"slot_id", slotId>>,
       <<"waypoint", waypoint>> >>

createAAD(routeHint, runId, stepNo) ==
    << <<"route_hint", routeHint>>,
       <<"run_id", runId>>,
       <<"step_no", stepNo>> >>

\* computeCommits throws when a section is missing.
computeCommitsThrows(e) ==
    ~IsSet(e.ctx) \/ ~IsSet(e.intent) \/ ~IsSet(e.trajectory) \/ ~IsSet(e.aad)

computeCommits(e) ==
    << <<"ctx_sha256", sha256Hex(canonicalize(e.ctx))>>,
       <<"intent_sha256", sha256Hex(canonicalize(e.intent))>>,
       <<"traj_sha256", sha256Hex(canonicalize(e.trajectory))>>,
       <<"aad_sha256", sha256Hex(canonicalize(e.aad))>> >>

\* verifyCommits that forgets the aad hash.
verifyCommits_SkipAad(e) ==
    IF ~IsSet(e.commit) THEN FALSE
    ELSE LET expected == computeCommits(e)
         IN  /\ Get(expected, "ctx_sha256") = Get(e.commit, "ctx_sha256")
             /\ Get(expected, "intent_sha256") = Get(e.commit, "intent_sha256")
             /\ Get(expected, "traj_sha256") = Get(e.commit, "traj_sha256")

verifyCommitsThrows(e) == IsSet(e.commit) /\ computeCommitsThrows(e)

verifyCommits(e) ==
    IF ~IsSet(e.commit) THEN FALSE
    ELSE LET expected == computeCommits(e)
         IN  /\ Get(expected, "ctx_sha256") = Get(e.commit, "ctx_sha256")
             /\ Get(expected, "intent_sha256") = Get(e.commit, "intent_sha256")
             /\ Get(expected, "traj_sha256") = Get(e.commit, "traj_sha256")
             /\ Get(expected, "aad_sha256") = Get(e.commit, "aad_sha256")

-----------------------------------------------------------------------------
(* SCBEVerifier: results *)

Valid == [valid |-> TRUE, reason |-> ""]

Reject(reason) == [valid |-> FALSE, reason |-> reason]

-----------------------------------------------------------------------------
(* SCBEVerifier: the gates *)

\* verifySchema that does not look at server_load.
verifySchema_NoLoadCheck(e) ==
    IF \/ ~IsSet(e.ctx) \/ ~IsSet(e.intent) \/ ~IsSet(e.trajectory)
       \/ ~IsSet(e.aad) \/ ~IsSet(e.commit) \/ ~IsSet(e.crypto)
    THEN Reject("schema")
    ELSE IF ~verifyCommits(e) THEN Reject("schema")
    ELSE IF Get(e.ctx, "entropy") < 0 \/ Get(e.ctx, "entropy") > Unit
    THEN Reject("schema")
    ELSE IF Get(e.ctx, "stability") < 0 \/ Get(e.ctx, "stability") > Unit
    THEN Reject("schema")
    ELSE Valid

verifySchema(e) ==
    IF \/ ~IsSet(e.ctx) \/ ~IsSet(e.intent) \/ ~IsSet(e.trajectory)
       \/ ~IsSet(e.aad) \/ ~IsSet(e.commit) \/ ~IsSet(e.crypto)
    THEN Reject("schema")
    ELSE IF ~verifyCommits(e) THEN Reject("schema")
    ELSE IF Get(e.ctx, "entropy") < 0 \/ Get(e.ctx, "entropy") > Unit
    THEN Reject("schema")
    ELSE IF Get(e.ctx, "server_load") < 0 \/ Get(e.ctx, "server_load") > Unit
    THEN Reject("schema")
    ELSE IF Get(e.ctx, "stability") < 0 \/ Get(e.ctx, "stability") > Unit
    THEN Reject("schema")
    ELSE Valid

\* verifySchema throws when verifyCommits does: the presence check comes
\* first, and the reads of ctx follow it.
verifySchemaThrows_NoPresenceCheck(e) == verifyCommitsThrows(e)

verifySchemaThrows(e) ==
    /\ IsSet(e.ctx) /\ IsSet(e.intent) /\ IsSet(e.trajectory)
    /\ IsSet(e.aad) /\ IsSet(e.commit) /\ IsSet(e.crypto)
    /\ verifyCommitsThrows(e)

\* `${primary}:${modifier}:${harmonic}`
IntentKey(primary, modifier, harmonic) ==
    primary \o ":" \o modifier \o ":" \o ToString(harmonic)

\* arr.includes(x)
Includes(arr, x) == \E i \in 1..Len(arr) : arr[i] = x

verifyIntentPolicy(intents, e) ==
    LET intentKey == IntentKey(Get(e.intent, "primary"),
                               Get(e.intent, "modifier"),
                               Get(e.intent, "harmonic"))
        allowedRoutes == IF intentKey \in DOMAIN intents
                         THEN intents[intentKey] ELSE <<>>
    IN  IF ~Includes(allowedRoutes, Get(e.aad, "route_hint"))
        THEN Reject("intent")
        ELSE Valid

phaseTolerance == 15

\* verifyTrajectory with the tolerance boundary excluded (>= for >).
verifyTrajectory_Exclusive(e, currentTime) ==
    LET epoch == Get(e.trajectory, "epoch")
        period == Get(e.trajectory, "period_s")
        elapsed == currentTime - epoch
        currentPhaseP == JsRem(360 * elapsed, 360 * period)
        phaseDiffP == Abs(currentPhaseP - Get(e.intent, "phase_deg") * period)
    IN  IF currentTime < epoch THEN Reject("trajectory")
        ELSE IF /\ phaseDiffP >= phaseTolerance * period
                /\ (360 * period - phaseDiffP) >= phaseTolerance * period
        THEN Reject("trajectory")
        ELSE Valid

verifyTrajectory(e, currentTime) ==
    LET epoch == Get(e.trajectory, "epoch")
        period == Get(e.trajectory, "period_s")
        elapsed == currentTime - epoch
        \* currentPhaseDeg and phaseDiff, both multiplied by period_s
        currentPhaseP == JsRem(360 * elapsed, 360 * period)
        phaseDiffP == Abs(currentPhaseP - Get(e.intent, "phase_deg") * period)
    IN  IF currentTime < epoch THEN Reject("trajectory")
        ELSE IF /\ phaseDiffP > phaseTolerance * period
                /\ (360 * period - phaseDiffP) > phaseTolerance * period
        THEN Reject("trajectory")
        ELSE Valid

DefaultMinTrust == 300

\* this.trustScores.get(provider) || dflt : undefined and 0 are both falsy.
GetOr(scores, provider, dflt) ==
    IF provider \in DOMAIN scores /\ scores[provider] # 0
    THEN scores[provider] ELSE dflt

GateDefaultTrust == 0

verifySwarmTrust(scores, provider, minTrust) ==
    LET trust == GetOr(scores, provider, GateDefaultTrust)
    IN  IF trust < minTrust THEN Reject("swarm") ELSE Valid

\* verifyFull with a crypto gate that insists on signatures.
verifyFull_CryptoGate(intents, scores, e, currentTime) ==
    LET r1 == verifySchema(e)
    IN  IF ~r1.valid THEN [result |-> r1, gates |-> <<"schema">>]
        ELSE
    LET r3 == verifyIntentPolicy(intents, e)
    IN  IF ~r3.valid THEN [result |-> r3, gates |-> <<"schema", "intent">>]
        ELSE
    LET r4 == verifyTrajectory(e, currentTime)
    IN  IF ~r4.valid
        THEN [result |-> r4, gates |-> <<"schema", "intent", "trajectory">>]
        ELSE
    LET r6 == verifySwarmTrust(scores, Get(e.aad, "route_hint"), DefaultMinTrust)
    IN  IF ~r6.valid
        THEN [result |-> r6,
              gates |-> <<"schema", "intent", "trajectory", "swarm">>]
        ELSE IF ~IsSet(e.sig)
        THEN [result |-> Reject("crypto"),
              gates |-> <<"schema", "intent", "trajectory", "swarm">>]
        ELSE [result |-> Valid,
              gates |-> <<"schema", "intent", "trajectory", "swarm">>]

\* verifyFull that consults the trust table before the trajectory.
verifyFull_TrustBeforeTrajectory(intents, scores, e, currentTime) ==
    LET r1 == verifySchema(e)
    IN  IF ~r1.valid THEN [result |-> r1, gates |-> <<"schema">>]
        ELSE
    LET r3 == verifyIntentPolicy(intents, e)
    IN  IF ~r3.valid THEN [result |-> r3, gates |-> <<"schema", "intent">>]
        ELSE
    LET r6 == verifySwarmTrust(scores, Get(e.aad, "route_hint"), DefaultMinTrust)
    IN  IF ~r6.valid
        THEN [result |-> r6, gates |-> <<"schema", "intent", "swarm">>]
        ELSE
    LET r4 == verifyTrajectory(e, currentTime)
    IN  IF ~r4.valid
        THEN [result |-> r4,
              gates |-> <<"schema", "intent", "swarm", "trajectory">>]
        ELSE [result |-> Valid,
              gates |-> <<"schema", "intent", "swarm", "trajectory">>]

\* verifyFull, returning with the result the gates it evaluated, in order.
verifyFull(intents, scores, e, currentTime) ==
    LET r1 == verifySchema(e)
    IN  IF ~r1.valid THEN [result |-> r1, gates |-> <<"schema">>]
        ELSE
    LET r3 == verifyIntentPolicy(intents, e)
    IN  IF ~r3.valid THEN [result |-> r3, gates |-> <<"schema", "intent">>]
        ELSE
    LET r4 == verifyTrajectory(e, currentTime)
    IN  IF ~r4.valid
        THEN [result |-> r4, gates |-> <<"schema", "intent", "trajectory">>]
        ELSE
    LET r6 == verifySwarmTrust(scores, Get(e.aad, "route_hint"), DefaultMinTrust)
    IN  IF ~r6.valid
        THEN [result |-> r6,
              gates |-> <<"schema", "intent", "trajectory", "swarm">>]
        ELSE [result |-> Valid,
              gates |-> <<"schema", "intent", "trajectory", "swarm">>]

\* verifyFull throws when a gate does: the schema gate, or a later gate
\* reading a section that is not there (envelope.intent!.primary,
\* envelope.trajectory!.epoch, envelope.aad!.route_hint).
verifyFullThrows(intents, scores, e, currentTime) ==
    \/ verifySchemaThrows(e)
    \/ /\ verifySchema(e).valid
       /\ ~IsSet(e.intent) \/ ~IsSet(e.aad) \/ ~IsSet(e.trajectory)

-----------------------------------------------------------------------------
(* SCBEVerifier: the registry operations *)

\* Map.prototype.set
MapSet(m, k, v) == [x \in DOMAIN m \cup {k} |-> IF x = k THEN v ELSE m[x]]

registerIntent(intents, primary, modifier, harmonic, allowedRoutes) ==
    MapSet(intents, IntentKey(primary, modifier, harmonic), allowedRoutes)

setTrust(scores, provider, trust) == MapSet(scores, provider, trust)

UpdateDefaultTrust == 500

DefaultAlpha == 900

\* updateTrust whose weights do not add up to one.
updateTrust_Overshoot(scores, provider, validity, alpha) ==
    LET currentTrust == GetOr(scores, provider, UpdateDefaultTrust)
        newTrust == RoundDiv(alpha * currentTrust + Unit * validity, Unit)
    IN  MapSet(scores, provider, newTrust)

\* updateTrust that averages from the default instead of the stored trust.
updateTrust_IgnoresStored(scores, provider, validity, alpha) ==
    LET currentTrust == UpdateDefaultTrust
        newTrust == RoundDiv(alpha * currentTrust + (Unit - alpha) * validity,
                             Unit)
    IN  MapSet(scores, provider, newTrust)

updateTrust(scores, provider, validity, alpha) ==
    LET currentTrust == GetOr(scores, provider, UpdateDefaultTrust)
        newTrust == RoundDiv(alpha * currentTrust + (Unit - alpha) * validity,
                             Unit)
    IN  MapSet(scores, provider, newTrust)

-----------------------------------------------------------------------------
(* Inputs of the exploration *)

Null == "(null)"

Routes == {"github-api", "openai", "public-fetch", "rogue"}

\* The providers whose trust the exploration sets and updates.
ScoredRoutes == {"github-api", "public-fetch"}

Sections == {"ctx", "intent", "trajectory", "aad"}

Members == Sections \cup {"commit", "crypto"}

\* The clock readings explored, for an epoch of 1000 and a period of 3600:
\* half a period in (180 degrees) and 10 seconds short of a full period
\* (359 degrees).  A reading before the epoch is met with the epoch 5000.
Times == {2800, 4590}

\* The values a caller may write into a field (besides the one it holds).
FieldValues(sec, k) ==
    CASE k = "ts" -> {900, 2800}
      [] k = "device_id" -> {"dev1", "dev2"}
      [] k = "threat_level" -> {3, 5}
      [] k = "entropy" -> {720, Unit, Unit + 1}
      [] k = "server_load" -> {450, -1}
      [] k = "stability" -> {890, Unit + 500}
      [] k = "primary" -> {"fetch", "process"}
      [] k = "modifier" -> {"catalog", "analyze", "catalog:x"}
      [] k = "harmonic" -> {2, 3}
      [] k = "phase_deg" -> {180, 195, 196, 165, 5}
      [] k = "epoch" -> {1000, 5000}
      [] k = "period_s" -> {3600, 7200}
      [] k = "slot_id" -> {"slot-a", "slot-b"}
      [] k = "waypoint" -> {1, 2}
      [] k = "route_hint" -> Routes
      [] k = "run_id" -> {"run1", "run2"}
      [] k = "step_no" -> {7, 8}

IntentTriples ==
    {<<"fetch", "catalog", 2>>, <<"process", "analyze", 3>>,
     <<"fetch:catalog", "x", 2>>}

RouteLists == {<<>>, <<"github-api", "openai">>}

TrustValues == {0, DefaultMinTrust - 1, DefaultMinTrust}

\* The trust the decay scenario starts from.
StartTrust == 850

Validities == {0, Unit}

Alphas == {0, DefaultAlpha, Unit}

\* The envelope of the module's example usage, for the 'fetch' intent.
BaseSections ==
    [ctx |-> createContext(2800, "dev1", 3 * Unit, 720, 450, 890),
     intent |-> createIntent("fetch", "catalog", 2 * Unit, 180),
     trajectory |-> createTrajectory(1000, 3600, "slot-a", 1),
     aad |-> createAAD("github-api", "run1", 7)]

BaseCrypto ==
    << <<"kem", "ML-KEM-768">>,
       <<"sig", "ML-DSA-65">>,
       <<"h", << <<"d", 4>>, <<"R", 1500>>, <<"H", 656841>>,
                 <<"n_iter", 6500>> >> >>,
       <<"salt_q_b64", "c2FtcGxlX3NhbHQ=">>,
       <<"cipher_b64", "ZW5jcnlwdGVkX3BheWxvYWQ=">> >>

BaseSig ==
    << <<"orchestrator_sig_b64", "placeholder_signature">>,
       <<"provider_sig_b64", Null>> >>

\* toObject's default for an absent sig
NullSig ==
    << <<"orchestrator_sig_b64", Null>>, <<"provider_sig_b64", Null>> >>

BaseEnvelope ==
    LET e == [ver |-> "scbe-2.0",
              ctx |-> BaseSections.ctx,
              intent |-> BaseSections.intent,
              trajectory |-> BaseSections.trajectory,
              aad |-> BaseSections.aad,
              commit |-> Undefined,
              crypto |-> BaseCrypto,
              sig |-> BaseSig]
    IN  [e EXCEPT !.commit = computeCommits(e)]

\* Other contents of the members no gate reads: crypto parameters and
\* signatures.
ExtensionValues(m) ==
    IF m = "crypto"
    THEN {With(BaseCrypto, "kem", "X25519"),
          With(BaseCrypto, "cipher_b64", "AAAA")}
    ELSE {Undefined, NullSig}

\* Every field of the four committed sections.
AllFields ==
    UNION {{<<sec, BaseSections[sec][i][1]>> : i \in 1..Len(BaseSections[sec])} :
              sec \in Sections}

\* The fields the gates read, and ctx.ts.
GateFields ==
    {<<"ctx", "ts">>, <<"ctx", "entropy">>, <<"ctx", "server_load">>,
     <<"ctx", "stability">>, <<"intent", "primary">>, <<"intent", "modifier">>,
     <<"intent", "harmonic">>, <<"intent", "phase_deg">>,
     <<"trajectory", "epoch">>, <<"trajectory", "period_s">>,
     <<"aad", "route_hint">>}

EmptyMap == <<>>

\* The registry as the gateway of the integration guide sets it up.
GatewayIntents ==
    registerIntent(
        registerIntent(EmptyMap, "fetch", "catalog", 2,
                       <<"public-fetch", "github-api">>),
        "process", "analyze", 3, <<"openai", "anthropic">>)

GatewayRegistered ==
    MapSet(MapSet(EmptyMap, <<"fetch", "catalog", 2>>,
                  <<"public-fetch", "github-api">>),
           <<"process", "analyze", 3>>, <<"openai", "anthropic">>)

GatewayTrust ==
    setTrust(setTrust(setTrust(EmptyMap, "openai", 850), "anthropic", 900),
             "github-api", 950)

-----------------------------------------------------------------------------
(* Object form and fail-to-noise response *)

toObject(e) ==
    [ver |-> e.ver, ctx |-> e.ctx, intent |-> e.intent,
     trajectory |-> e.trajectory, aad |-> e.aad, commit |-> e.commit,
     crypto |-> e.crypto,
     sig |-> IF IsSet(e.sig) THEN e.sig ELSE NullSig]

\* A JSON text, as far as fromJSON looks at it: whether it parses, and the
\* members of its top-level object in the order they are written.
JsonText(members) == [wellFormed |-> TRUE, members |-> members]

NotJson == [wellFormed |-> FALSE, members |-> <<>>]

EnvelopeMembers ==
    <<"ver", "ctx", "intent", "trajectory", "aad", "commit", "crypto", "sig">>

\* JSON.stringify(this.toObject(), null, 2): the members of toObject's
\* literal in its order, those that are undefined left out.
toJSON(e) ==
    LET o == toObject(e)
        present == SelectSeq(EnvelopeMembers,
                             LAMBDA m : m = "ver" \/ IsSet(o[m]))
    IN  JsonText([i \in 1..Len(present) |-> <<present[i], o[present[i]]>>])

\* JSON.parse throws a SyntaxError on a text that is not JSON.
JsonParseThrows(text) == ~text.wellFormed

\* JSON.parse: reading a member the text does not have gives undefined; of a
\* member written twice the last one counts.
JsonParse(text) ==
    [m \in {EnvelopeMembers[i] : i \in 1..Len(EnvelopeMembers)} |->
        LET at == {i \in 1..Len(text.members) : text.members[i][1] = m}
        IN  IF at = {} THEN Undefined
            ELSE text.members[CHOOSE i \in at : \A j \in at : j <= i][2]]

fromObject(data) ==
    [ver |-> data.ver, ctx |-> data.ctx, intent |-> data.intent,
     trajectory |-> data.trajectory, aad |-> data.aad,
     commit |-> data.commit, crypto |-> data.crypto, sig |-> data.sig]

fromJSONThrows(json) == JsonParseThrows(json)

fromJSON(json) == fromObject(JsonParse(json))

\* The text without the member m.
WithoutMember(text, m) ==
    JsonText(SelectSeq(text.members, LAMBDA p : p[1] # m))

\* The same members written in the opposite order.
Reversed(text) ==
    JsonText([i \in 1..Len(text.members) |->
                 text.members[Len(text.members) + 1 - i]])

\* The seeds the gateway passes: 'gateway_seed_' + req.ip
Seeds == {"gateway_seed_10.0.0.1", "gateway_seed_10.0.0.2"}

\* Values of seed.readUInt32BE(0): both ends of the range held here and the
\* two sides of a multiple of 4096.
Words == {0, 4095, 4096, 2147483647}

\* crypto.createHash('sha256').update(seedData + ctx_sha256).digest()
NoiseSeed(envelope, seedData) ==
    sha256Hex(seedData \o Get(envelope.commit, "ctx_sha256"))

\* envelope.commit!.ctx_sha256 and noiseEnvelope.crypto.cipher_b64 = ...
\* raise a TypeError on an undefined commit or crypto.
generateNoiseResponseThrows(envelope) ==
    ~IsSet(envelope.commit) \/ ~IsSet(envelope.crypto)

noiseBase == 4096

noiseBand == 4096

NoiseB64(seed, noiseLength) ==
    "base64(pbkdf2(" \o seed \o ",noise,1," \o ToString(noiseLength) \o "))"

\* generateNoiseResponse with a band twice as wide.
generateNoiseResponse_WideBand(digests, envelope, seedData) ==
    LET seed == NoiseSeed(envelope, seedData)
        noiseLength == noiseBase + (digests[seed] % (2 * noiseBand))
    IN  [length |-> noiseLength,
         value |-> [toObject(envelope) EXCEPT
                      !.crypto = With(envelope.crypto, "cipher_b64",
                                      NoiseB64(seed, noiseLength))]]

\* generateNoiseResponse that returns a crypto member holding the noise only.
generateNoiseResponse_FreshCrypto(digests, envelope, seedData) ==
    LET seed == NoiseSeed(envelope, seedData)
        noiseLength == noiseBase + (digests[seed] % noiseBand)
    IN  [length |-> noiseLength,
         value |-> [toObject(envelope) EXCEPT
                      !.crypto = << <<"cipher_b64",
                                      NoiseB64(seed, noiseLength)>> >>]]

\* generateNoiseResponse whose noise is salted with the rejection reason.
generateNoiseResponse_ByReason(digests, envelope, seedData) ==
    LET seed == NoiseSeed(envelope, seedData)
        noiseLength == noiseBase + (digests[seed] % noiseBand)
    IN  [length |-> noiseLength,
         value |-> [toObject(envelope) EXCEPT
                      !.crypto = With(envelope.crypto, "cipher_b64",
                                      NoiseB64(seed \o res.result.reason,
                                               noiseLength))]]

\* generateNoiseResponse whose noise is salted with the time of the call.
generateNoiseResponse_ByTime(digests, envelope, seedData) ==
    LET seed == NoiseSeed(envelope, seedData)
        noiseLength == noiseBase + (digests[seed] % noiseBand)
    IN  [length |-> noiseLength,
         value |-> [toObject(envelope) EXCEPT
                      !.crypto = With(envelope.crypto, "cipher_b64",
                                      NoiseB64(seed \o ToString(now),
                                               noiseLength))]]

\* generateNoiseResponse on an envelope whose commit and crypto are set;
\* digests gives the leading word of each digest.  Returns the response and
\* the length of the noise in bytes.
generateNoiseResponse(digests, envelope, seedData) ==
    LET seed == NoiseSeed(envelope, seedData)
        lengthSeed == digests[seed]
        noiseLength == noiseBase + (lengthSeed % noiseBand)
        noiseB64 == NoiseB64(seed, noiseLength)
    IN  [length |-> noiseLength,
         value |-> [toObject(envelope) EXCEPT
                      !.crypto = With(envelope.crypto, "cipher_b64",
                                      noiseB64)]]

-----------------------------------------------------------------------------
(* History variables *)

NoRegistration ==
    [called |-> FALSE, triple |-> <<"", "", 0>>, routes |-> <<>>,
     intents |-> <<>>, scores |-> <<>>]

NotMade == [op |-> "none", args |-> <<>>, value |-> <<>>]

\* What a call gave: a returned value or a thrown error.
Returned(v) == [threw |-> FALSE, error |-> "", value |-> v]

Thrown(name) == [threw |-> TRUE, error |-> name, value |-> <<>>]

NoNoise ==
    [called |-> FALSE, threw |-> FALSE, seed |-> "", rejected |-> FALSE,
     input |-> <<>>, response |-> <<>>, length |-> 0]

NoResult == [result |-> Reject(""), gates |-> <<>>]

\* verifyFull threw instead of returning a result.
Raised == [result |-> Reject("(thrown)"), gates |-> <<"(thrown)">>]

\* verifyFull has been called in the current state.
Called == res.gates # <<>>

NoOp == [op |-> "none", provider |-> "", validity |-> 0, alpha |-> 0,
         had |-> FALSE, prev |-> 0]

\* No request has come in yet.
NoTasks == <<>>

DecaySteps == 20

SectionsOf(e) ==
    [ctx |-> e.ctx, intent |-> e.intent, trajectory |-> e.trajectory,
     aad |-> e.aad]

\* The run of a route after a registry operation: a zero-validity update with
\* the default alpha extends it, anything else starts a new one at the stored
\* trust.
RunAfter(provider, zeroUpdate, newTrust) ==
    IF zeroUpdate /\ provider \in DOMAIN run
    THEN MapSet(run, provider,
                [run[provider] EXCEPT !.n = Min2(DecaySteps, @ + 1)])
    ELSE MapSet(run, provider, [start |-> newTrust, n |-> 0])

-----------------------------------------------------------------------------
(* Initial states *)

Init ==
    /\ \/ /\ allowedIntents = EmptyMap
          /\ trustScores = EmptyMap
          /\ registered = EmptyMap
       \/ /\ allowedIntents = GatewayIntents
          /\ trustScores = GatewayTrust
          /\ registered = GatewayRegistered
    /\ env = BaseEnvelope
    /\ stamped = BaseSections
    /\ now = 2800
    /\ res = NoResult
    /\ last = NoOp
    /\ run = EmptyMap
    /\ steps = 0
    /\ words = EmptyMap
    /\ noise = NoNoise
    /\ sent = {}
    /\ lastReg = NoRegistration
    /\ made = NotMade
    /\ tasks = NoTasks
    /\ applied = <<>>

-----------------------------------------------------------------------------
(* Caller operations on the envelope *)

\* envelope.<sec>.<k> = v
SetField(sec, k, v) ==
    /\ IsSet(env[sec])
    /\ Get(env[sec], k) # v
    /\ env' = [env EXCEPT ![sec] = With(@, k, v)]
    /\ res' = NoResult
    /\ UNCHANGED <<allowedIntents, trustScores, stamped, now, last, run,
                   registered>>
    /\ UNCHANGED <<noiseVars, lastReg, made>>
    /\ UNCHANGED loopVars

\* fromObject of an exchange object that lacks the member m
Unset(m) ==
    /\ IsSet(env[m])
    /\ env' = [env EXCEPT ![m] = Undefined]
    /\ res' = NoResult
    /\ UNCHANGED <<allowedIntents, trustScores, stamped, now, last, run,
                   registered>>
    /\ UNCHANGED <<noiseVars, lastReg, made>>
    /\ UNCHANGED loopVars

\* fromObject of an exchange object with other crypto parameters or
\* signatures
SetExtension(m, v) ==
    /\ env[m] # v
    /\ env' = [env EXCEPT ![m] = v]
    /\ res' = NoResult
    /\ UNCHANGED <<allowedIntents, trustScores, stamped, now, last, run,
                   registered>>
    /\ UNCHANGED <<noiseVars, lastReg, made>>
    /\ UNCHANGED loopVars

\* envelope.commit = envelope.computeCommits(); enabled when it changes the
\* envelope (a commit that is current is left as it is).
Stamp ==
    /\ ~computeCommitsThrows(env)
    /\ ~IsSet(env.commit) \/ SectionsOf(env) # stamped
    /\ env' = [env EXCEPT !.commit = computeCommits(env)]
    /\ stamped' = SectionsOf(env)
    /\ res' = NoResult
    /\ UNCHANGED <<allowedIntents, trustScores, now, last, run, registered>>
    /\ UNCHANGED <<noiseVars, lastReg, made>>
    /\ UNCHANGED loopVars

\* The clock advances.
Tick ==
    /\ \E t \in Times : t > now /\ now' = t
    /\ res' = NoResult
    /\ UNCHANGED <<allowedIntents, trustScores, env, stamped, last, run,
                   registered>>
    /\ UNCHANGED <<noiseVars, lastReg, made>>
    /\ UNCHANGED loopVars

-----------------------------------------------------------------------------
(* Verifier operations *)

RegisterIntent(primary, modifier, harmonic, allowedRoutes) ==
    /\ allowedIntents' =
           registerIntent(allowedIntents, primary, modifier, harmonic,
                          allowedRoutes)
    /\ registered' =
           MapSet(registered, <<primary, modifier, harmonic>>, allowedRoutes)
    /\ last' = [NoOp EXCEPT !.op = "registerIntent"]
    /\ lastReg' = [called |-> TRUE,
                   triple |-> <<primary, modifier, harmonic>>,
                   routes |-> allowedRoutes,
                   intents |-> allowedIntents, scores |-> trustScores]
    /\ res' = NoResult
    /\ UNCHANGED <<trustScores, env, stamped, now, run>>
    /\ UNCHANGED <<noiseVars, made>>
    /\ UNCHANGED loopVars

SetTrust(provider, trust) ==
    /\ trustScores' = setTrust(trustScores, provider, trust)
    /\ last' = [op |-> "setTrust", provider |-> provider, validity |-> 0,
                alpha |-> 0, had |-> provider \in DOMAIN trustScores,
                prev |-> IF provider \in DOMAIN trustScores
                         THEN trustScores[provider] ELSE 0]
    /\ run' = RunAfter(provider, FALSE, trust)
    /\ res' = NoResult
    /\ UNCHANGED <<allowedIntents, env, stamped, now, registered>>
    /\ UNCHANGED <<noiseVars, lastReg, made>>
    /\ UNCHANGED loopVars

UpdateTrust(provider, validity, alpha) ==
    /\ trustScores' = updateTrust(trustScores, provider, validity, alpha)
    /\ last' = [op |-> "updateTrust", provider |-> provider,
                validity |-> validity, alpha |-> alpha,
                had |-> provider \in DOMAIN trustScores,
                prev |-> IF provider \in DOMAIN trustScores
                         THEN trustScores[provider] ELSE 0]
    /\ run' = RunAfter(provider, validity = 0 /\ alpha = DefaultAlpha,
                       trustScores'[provider])
    /\ res' = NoResult
    /\ UNCHANGED <<allowedIntents, env, stamped, now, registered>>
    /\ UNCHANGED <<noiseVars, lastReg, made>>
    /\ UNCHANGED loopVars

\* verifyFull that enters the default score of a route it has not seen into
\* the trust table.
VerifyFull_RecordsRoute ==
    /\ res = NoResult
    /\ res' = verifyFull(allowedIntents, trustScores, env, now)
    /\ trustScores' =
         IF IsSet(env.aad) /\ Get(env.aad, "route_hint") \notin DOMAIN trustScores
         THEN setTrust(trustScores, Get(env.aad, "route_hint"),
                       GateDefaultTrust)
         ELSE trustScores
    /\ UNCHANGED <<allowedIntents, env, stamped, now, last, run, registered,
                   steps>>
    /\ UNCHANGED <<noiseVars, lastReg, made>>
    /\ UNCHANGED loopVars

\* verifier.verifyFull(envelope); a second call in the same state returns
\* the same result and is not explored.
VerifyFull ==
    /\ res = NoResult
    /\ res' = IF verifyFullThrows(allowedIntents, trustScores, env, now)
              THEN Raised
              ELSE verifyFull(allowedIntents, trustScores, env, now)
    /\ UNCHANGED <<allowedIntents, trustScores, env, stamped, now, last, run,
                   registered, steps>>
    /\ UNCHANGED <<noiseVars, lastReg, made>>
    /\ UNCHANGED loopVars

\* generateNoiseResponse(envelope, seedData), called after verifyFull as the
\* gateway does.  The response shares the envelope's crypto object
\* (toObject copies the reference), so writing cipher_b64 into the response
\* writes it into the envelope as well.
GenerateNoise(seedData) ==
    /\ Called
    /\ IF generateNoiseResponseThrows(env)
       THEN /\ noise' = [NoNoise EXCEPT !.called = TRUE, !.threw = TRUE,
                                        !.seed = seedData,
                                        !.rejected = ~res.result.valid,
                                        !.input = env]
            /\ UNCHANGED <<env, words, sent, res>>
       ELSE \E w \in Words :
            LET seed == NoiseSeed(env, seedData)
                digests == IF seed \in DOMAIN words THEN words
                           ELSE MapSet(words, seed, w)
                out == generateNoiseResponse(digests, env, seedData)
            IN  /\ words' = digests
                /\ noise' = [called |-> TRUE, threw |-> FALSE,
                             seed |-> seedData,
                             rejected |-> ~res.result.valid,
                             input |-> env,
                             response |-> out.value, length |-> out.length]
                /\ sent' = sent \cup
                             {[input |-> env, seed |-> seedData,
                               reason |-> IF res.result.valid THEN "(valid)"
                                          ELSE res.result.reason,
                               response |-> out.value,
                               length |-> out.length]}
                /\ env' = [env EXCEPT !.crypto = out.value.crypto]
                /\ res' = NoResult
    /\ UNCHANGED <<allowedIntents, trustScores, stamped, now, last, run,
                   registered, lastReg, made>>
    /\ UNCHANGED loopVars

\* SCBEEnvelope.createContext(...), at the current time
CreateContext(deviceId, threatLevel, entropy, serverLoad, stability) ==
    /\ made' = [op |-> "createContext",
                args |-> <<deviceId, threatLevel, entropy, serverLoad,
                           stability>>,
                value |-> createContext(now, deviceId, threatLevel, entropy,
                                        serverLoad, stability)]
    /\ UNCHANGED <<allowedIntents, trustScores, env, stamped, now, res, last,
                   run, registered, steps, noiseVars, lastReg>>
    /\ UNCHANGED loopVars

\* SCBEEnvelope.createIntent(...)
CreateIntent(primary, modifier, harmonic, phaseDeg) ==
    /\ made' = [op |-> "createIntent",
                args |-> <<primary, modifier, harmonic, phaseDeg>>,
                value |-> createIntent(primary, modifier, harmonic, phaseDeg)]
    /\ UNCHANGED <<allowedIntents, trustScores, env, stamped, now, res, last,
                   run, registered, steps, noiseVars, lastReg>>
    /\ UNCHANGED loopVars

\* envelope.<sec> = an object with the same fields and values, the fields
\* at positions i and i + 1 set in the opposite order
Reorder(sec, i) ==
    /\ IsSet(env[sec])
    /\ i + 1 <= Len(env[sec])
    /\ env' = [env EXCEPT ![sec] =
                 [j \in 1..Len(@) |-> IF j = i THEN @[i + 1]
                                      ELSE IF j = i + 1 THEN @[i] ELSE @[j]]]
    /\ res' = NoResult
    /\ UNCHANGED <<allowedIntents, trustScores, stamped, now, last, run,
                   registered>>
    /\ UNCHANGED <<noiseVars, lastReg, made>>
    /\ UNCHANGED loopVars

\* SCBEEnvelope.canonicalize(envelope.<sec>)
Canonicalize(sec) ==
    /\ IsSet(env[sec])
    /\ made' = [op |-> "canonicalize", args |-> <<env[sec]>>,
                value |-> Returned(canonicalize(env[sec]))]
    /\ UNCHANGED <<allowedIntents, trustScores, env, stamped, now, res, last,
                   run, registered, noiseVars, lastReg>>
    /\ UNCHANGED loopVars

\* envelope.intent = SCBEEnvelope.createIntent(primary, modifier, harmonic,
\* phaseDeg)
SetIntent(primary, modifier, harmonic, phaseDeg) ==
    /\ env' = [env EXCEPT
                 !.intent = createIntent(primary, modifier, harmonic, phaseDeg)]
    /\ env' # env
    /\ res' = NoResult
    /\ UNCHANGED <<allowedIntents, trustScores, stamped, now, last, run,
                   registered>>
    /\ UNCHANGED <<noiseVars, lastReg, made>>
    /\ UNCHANGED loopVars

\* envelope.computeCommits(), the value not assigned
ComputeCommits ==
    /\ made' = [op |-> "computeCommits", args |-> <<env>>,
                value |-> IF computeCommitsThrows(env) THEN Thrown("Error")
                          ELSE Returned(computeCommits(env))]
    /\ UNCHANGED <<allowedIntents, trustScores, env, stamped, now, res, last,
                   run, registered, steps, noiseVars, lastReg>>
    /\ UNCHANGED loopVars

\* envelope.verifyCommits()
VerifyCommits ==
    /\ made' = [op |-> "verifyCommits", args |-> <<env>>,
                value |-> IF verifyCommitsThrows(env) THEN Thrown("Error")
                          ELSE Returned(verifyCommits(env))]
    /\ UNCHANGED <<allowedIntents, trustScores, env, stamped, now, res, last,
                   run, registered, steps, noiseVars, lastReg>>
    /\ UNCHANGED loopVars

\* envelope = SCBEEnvelope.fromObject(data)
FromObject(data) ==
    /\ env' = fromObject(data)
    /\ made' = [op |-> "fromObject", args |-> <<data>>,
                value |-> Returned(fromObject(data))]
    /\ res' = NoResult
    /\ UNCHANGED <<allowedIntents, trustScores, stamped, now, last, run,
                   registered, noiseVars, lastReg>>
    /\ UNCHANGED loopVars

\* envelope = SCBEEnvelope.fromJSON(json)
FromJSON(json) ==
    /\ IF fromJSONThrows(json)
       THEN /\ made' = [op |-> "fromJSON", args |-> <<json>>,
                        value |-> Thrown("SyntaxError")]
            /\ UNCHANGED <<env, res>>
       ELSE /\ env' = fromJSON(json)
            /\ made' = [op |-> "fromJSON", args |-> <<json>>,
                        value |-> Returned(fromJSON(json))]
            /\ res' = NoResult
    /\ UNCHANGED <<allowedIntents, trustScores, stamped, now, last, run,
                   registered, noiseVars, lastReg>>
    /\ UNCHANGED loopVars

\* The envelope of a request of the orchestrator for the provider route:
\* the 'process' intent of its configuration.
TaskEnvelope(route) ==
    LET e == [BaseEnvelope EXCEPT
                !.intent = createIntent("process", "analyze", 3 * Unit, 180),
                !.aad = createAAD(route, "run1", 7)]
    IN  [e EXCEPT !.commit = computeCommits(e)]

OrchestratorSeed == "orchestrator_seed"

\* The entry of the call history for a write of provider's trust.
Write(op, provider, value, task, wrote) ==
    [op |-> op, provider |-> provider, value |-> value, task |-> task,
     had |-> provider \in DOMAIN trustScores,
     prev |-> IF provider \in DOMAIN trustScores THEN trustScores[provider]
              ELSE 0,
     wrote |-> wrote]

\* executeTask up to its await: verifyFull, and on a rejection the noise
\* response is returned; otherwise the request waits for the provider.
Begin(route) ==
    /\ Len(tasks) < MaxTasks
    /\ LET e == TaskEnvelope(route)
           r == verifyFull(allowedIntents, trustScores, e, now)
           task == [pc |-> "calling", provider |-> route,
                    seen |-> GetOr(trustScores, route, GateDefaultTrust),
                    began |-> Len(applied)]
       IN  IF r.result.valid
           THEN /\ tasks' = Append(tasks, task)
                /\ UNCHANGED noiseVars
           ELSE \E w \in Words :
                LET seed == NoiseSeed(e, OrchestratorSeed)
                    digests == IF seed \in DOMAIN words THEN words
                               ELSE MapSet(words, seed, w)
                    out == generateNoiseResponse(digests, e, OrchestratorSeed)
                IN  /\ tasks' = Append(tasks, [task EXCEPT !.pc = "noise"])
                    /\ words' = digests
                    /\ noise' = [called |-> TRUE, threw |-> FALSE,
                                 seed |-> OrchestratorSeed, rejected |-> TRUE,
                                 input |-> e, response |-> out.value,
                                 length |-> out.length]
                    /\ sent' = sent \cup
                                 {[input |-> e, seed |-> OrchestratorSeed,
                                   reason |-> r.result.reason,
                                   response |-> out.value,
                                   length |-> out.length]}
    /\ UNCHANGED <<allowedIntents, trustScores, env, stamped, now, res, last,
                   run, registered, steps, lastReg, made, applied>>

\* executeTask that computes the new trust from the score verifyFull read
\* before the await.
Respond_StaleRead(t, validity) ==
    /\ t \in DOMAIN tasks
    /\ tasks[t].pc = "calling"
    /\ LET provider == tasks[t].provider
       IN  /\ trustScores' =
                 updateTrust(setTrust(trustScores, provider, tasks[t].seen),
                             provider, validity, DefaultAlpha)
           /\ applied' = Append(applied,
                                Write("updateTrust", provider, validity, t,
                                      trustScores'[provider]))
           /\ last' = [op |-> "updateTrust", provider |-> provider,
                       validity |-> validity, alpha |-> DefaultAlpha,
                       had |-> provider \in DOMAIN trustScores,
                       prev |-> IF provider \in DOMAIN trustScores
                                THEN trustScores[provider] ELSE 0]
           /\ run' = RunAfter(provider, validity = 0, trustScores'[provider])
    /\ tasks' = [tasks EXCEPT ![t].pc = "returned"]
    /\ UNCHANGED <<allowedIntents, env, stamped, now, res, registered, steps,
                   noiseVars, lastReg, made>>

\* executeTask after its await, the provider having answered:
\* computeValidity, updateTrust(provider, validity), return.
Respond(t, validity) ==
    /\ t \in DOMAIN tasks
    /\ tasks[t].pc = "calling"
    /\ LET provider == tasks[t].provider
       IN  /\ trustScores' = updateTrust(trustScores, provider, validity,
                                         DefaultAlpha)
           /\ applied' = Append(applied,
                                Write("updateTrust", provider, validity, t,
                                      trustScores'[provider]))
           /\ last' = [op |-> "updateTrust", provider |-> provider,
                       validity |-> validity, alpha |-> DefaultAlpha,
                       had |-> provider \in DOMAIN trustScores,
                       prev |-> IF provider \in DOMAIN trustScores
                                THEN trustScores[provider] ELSE 0]
           /\ run' = RunAfter(provider, validity = 0, trustScores'[provider])
    /\ tasks' = [tasks EXCEPT ![t].pc = "returned"]
    /\ UNCHANGED <<allowedIntents, env, stamped, now, res, registered, steps,
                   noiseVars, lastReg, made>>

\* executeTask after its await, the provider call having thrown:
\* updateTrust(provider, 0), rethrow.
Fail(t) ==
    /\ t \in DOMAIN tasks
    /\ tasks[t].pc = "calling"
    /\ LET provider == tasks[t].provider
       IN  /\ trustScores' = updateTrust(trustScores, provider, 0,
                                         DefaultAlpha)
           /\ applied' = Append(applied,
                                Write("updateTrust", provider, 0, t,
                                      trustScores'[provider]))
           /\ last' = [op |-> "updateTrust", provider |-> provider,
                       validity |-> 0, alpha |-> DefaultAlpha,
                       had |-> provider \in DOMAIN trustScores,
                       prev |-> IF provider \in DOMAIN trustScores
                                THEN trustScores[provider] ELSE 0]
           /\ run' = RunAfter(provider, TRUE, trustScores'[provider])
    /\ tasks' = [tasks EXCEPT ![t].pc = "threw"]
    /\ UNCHANGED <<allowedIntents, env, stamped, now, res, registered, steps,
                   noiseVars, lastReg, made>>

\* this.verifier.setTrust(provider.name, provider.initialTrust), for a
\* provider whose configuration is loaded while requests are under way.
Configure(provider, trust) ==
    /\ trustScores' = setTrust(trustScores, provider, trust)
    /\ applied' = Append(applied, Write("setTrust", provider, trust, 0, trust))
    /\ last' = [op |-> "setTrust", provider |-> provider, validity |-> 0,
                alpha |-> 0, had |-> provider \in DOMAIN trustScores,
                prev |-> IF provider \in DOMAIN trustScores
                         THEN trustScores[provider] ELSE 0]
    /\ run' = RunAfter(provider, FALSE, trust)
    /\ UNCHANGED <<allowedIntents, env, stamped, now, res, registered,
                   noiseVars, lastReg, made, tasks>>

-----------------------------------------------------------------------------
(* The gateway: a budget of MaxSteps caller operations *)

Budgeted == steps < MaxSteps /\ steps' = steps + 1

Next ==
    \/ Budgeted /\ \E f \in GateFields : \E v \in FieldValues(f[1], f[2]) :
         SetField(f[1], f[2], v)
    \/ Budgeted /\ \E m \in Members : Unset(m)
    \/ Stamp /\ UNCHANGED steps
    \/ Budgeted /\ Tick
    \/ Budgeted /\ \E t \in IntentTriples : \E rs \in RouteLists :
         RegisterIntent(t[1], t[2], t[3], rs)
    \/ Budgeted /\ \E p \in ScoredRoutes : \E t \in TrustValues : SetTrust(p, t)
    \/ Budgeted /\ \E p \in ScoredRoutes : \E v \in Validities :
         UpdateTrust(p, v, DefaultAlpha)
    \/ VerifyFull

Spec == Init /\ [][Next]_vars

-----------------------------------------------------------------------------
(* Trust decay: one provider under an unbounded series of outcomes *)

DecayRoute == "github-api"

DecayInit ==
    /\ allowedIntents = GatewayIntents
    /\ registered = GatewayRegistered
    /\ trustScores = EmptyMap
    /\ env = BaseEnvelope
    /\ stamped = BaseSections
    /\ now = 2800
    /\ res = NoResult
    /\ last = NoOp
    /\ run = EmptyMap
    /\ steps = 0
    /\ words = EmptyMap
    /\ noise = NoNoise
    /\ sent = {}
    /\ lastReg = NoRegistration
    /\ made = NotMade
    /\ tasks = NoTasks
    /\ applied = <<>>

DecayNext ==
    \/ \E t \in TrustValues \cup {StartTrust} :
         SetTrust(DecayRoute, t) /\ UNCHANGED steps
    \/ \E v \in Validities :
         UpdateTrust(DecayRoute, v, DefaultAlpha) /\ UNCHANGED steps
    \/ VerifyFull

DecaySpec == DecayInit /\ [][DecayNext]_vars

-----------------------------------------------------------------------------
(* The trust table: scores, validities and alphas over the whole of [0,1] *)

TrustInit ==
    /\ allowedIntents = GatewayIntents
    /\ registered = GatewayRegistered
    /\ trustScores = EmptyMap
    /\ env = BaseEnvelope
    /\ stamped = BaseSections
    /\ now = 2800
    /\ res = NoResult
    /\ last = NoOp
    /\ run = EmptyMap
    /\ steps = 0
    /\ words = EmptyMap
    /\ noise = NoNoise
    /\ sent = {}
    /\ lastReg = NoRegistration
    /\ made = NotMade
    /\ tasks = NoTasks
    /\ applied = <<>>

Counted == steps < MaxCalls /\ steps' = steps + 1

TrustNext ==
    \/ Counted /\ \E t \in TrustValues \cup {Unit} : SetTrust(DecayRoute, t)
    \/ Counted /\ \E v \in Validities : \E a \in Alphas :
         UpdateTrust(DecayRoute, v, a)

TrustSpec == TrustInit /\ [][TrustNext]_vars

-----------------------------------------------------------------------------
(* Fail-to-noise: the gateway answering requests with noise *)

NoiseInit ==
    /\ allowedIntents = GatewayIntents
    /\ registered = GatewayRegistered
    /\ trustScores = GatewayTrust
    /\ env = BaseEnvelope
    /\ stamped = BaseSections
    /\ now = 2800
    /\ res = NoResult
    /\ last = NoOp
    /\ run = EmptyMap
    /\ steps = 0
    /\ words = EmptyMap
    /\ noise = NoNoise
    /\ sent = {}
    /\ lastReg = NoRegistration
    /\ made = NotMade
    /\ tasks = NoTasks
    /\ applied = <<>>

NoiseNext ==
    \/ Budgeted /\ \E m \in {"ctx", "commit", "crypto"} : Unset(m)
    \/ Budgeted /\ SetExtension("sig", Undefined)
    \/ Budgeted /\ Tick
    \/ Budgeted /\ RegisterIntent("fetch", "catalog", 2, <<>>)
    \/ Budgeted /\ SetTrust(DecayRoute, 0)
    \/ VerifyFull
    \/ /\ Cardinality(sent) < MaxResponses
       /\ \E seedData \in Seeds : GenerateNoise(seedData)
       /\ UNCHANGED steps

NoiseSpec == NoiseInit /\ [][NoiseNext]_vars

-----------------------------------------------------------------------------
(* The Codec constructors on arguments inside and outside their ranges *)

ThreatLevels == {-1 * Unit, 0, 999, Unit, 3700, 5 * Unit, 5001, 9 * Unit}

Fractions == {-500, 0, 720, Unit, Unit + 500}

Harmonics == {-2 * Unit, 0, Unit, 4500, 7 * Unit, 7999, 8 * Unit}

Angles == {-721, -360, -90, -1, 0, 45, 359, 360, 725}

CodecInit ==
    /\ allowedIntents = EmptyMap
    /\ registered = EmptyMap
    /\ trustScores = EmptyMap
    /\ env = BaseEnvelope
    /\ stamped = BaseSections
    /\ now = 2800
    /\ res = NoResult
    /\ last = NoOp
    /\ run = EmptyMap
    /\ steps = 0
    /\ words = EmptyMap
    /\ noise = NoNoise
    /\ sent = {}
    /\ lastReg = NoRegistration
    /\ made = NotMade
    /\ tasks = NoTasks
    /\ applied = <<>>

CodecNext ==
    \/ \E t \in ThreatLevels : \E e \in Fractions :
         \E l \in {0, Unit + 1} : \E b \in {-1, 890} :
            CreateContext("dev1", t, e, l, b)
    \/ \E h \in Harmonics : \E a \in Angles :
         CreateIntent("fetch", "catalog", h, a)

CodecSpec == CodecInit /\ [][CodecNext]_vars

-----------------------------------------------------------------------------
(* Extension members: envelopes that differ in crypto and sig *)

ExtensionInit ==
    /\ allowedIntents = GatewayIntents
    /\ registered = GatewayRegistered
    /\ trustScores = GatewayTrust
    /\ env = BaseEnvelope
    /\ stamped = BaseSections
    /\ now = 2800
    /\ res = NoResult
    /\ last = NoOp
    /\ run = EmptyMap
    /\ steps = 0
    /\ words = EmptyMap
    /\ noise = NoNoise
    /\ sent = {}
    /\ lastReg = NoRegistration
    /\ made = NotMade
    /\ tasks = NoTasks
    /\ applied = <<>>

ExtensionNext ==
    \/ Budgeted /\ \E m \in {"crypto", "sig"} : \E v \in ExtensionValues(m) :
         SetExtension(m, v)
    \/ Budgeted /\ \E m \in {"aad", "crypto"} : Unset(m)
    \/ Budgeted /\ \E v \in FieldValues("aad", "route_hint") :
         SetField("aad", "route_hint", v)
    \/ Stamp /\ UNCHANGED steps
    \/ Budgeted /\ Tick
    \/ Budgeted /\ RegisterIntent("fetch", "catalog", 2, <<>>)
    \/ Budgeted /\ SetTrust(DecayRoute, 0)
    \/ VerifyFull

ExtensionSpec == ExtensionInit /\ [][ExtensionNext]_vars

-----------------------------------------------------------------------------
(* Tampering: a stamped envelope whose fields are rewritten in transit *)

TamperInit ==
    /\ allowedIntents = GatewayIntents
    /\ registered = GatewayRegistered
    /\ trustScores = GatewayTrust
    /\ env = BaseEnvelope
    /\ stamped = BaseSections
    /\ now = 2800
    /\ res = NoResult
    /\ last = NoOp
    /\ run = EmptyMap
    /\ steps = 0
    /\ words = EmptyMap
    /\ noise = NoNoise
    /\ sent = {}
    /\ lastReg = NoRegistration
    /\ made = NotMade
    /\ tasks = NoTasks
    /\ applied = <<>>

TamperNext ==
    \/ Budgeted /\ \E f \in AllFields : \E v \in FieldValues(f[1], f[2]) :
         SetField(f[1], f[2], v)
    \/ Stamp /\ UNCHANGED steps
    \/ VerifyFull

TamperSpec == TamperInit /\ [][TamperNext]_vars

-----------------------------------------------------------------------------
(* Incomplete envelopes: exchange objects and texts that lack members *)

\* The exchange objects a peer may send, given the envelope at hand: its
\* object form, whole or short of one member.
ExchangeObjects ==
    {toObject(env)} \cup {[toObject(env) EXCEPT ![m] = Undefined] : m \in Members}

\* The texts a peer may send: the envelope's JSON, whole, short of one
\* member or with the members in another order, and a text that is no JSON.
ExchangeTexts ==
    {toJSON(env), Reversed(toJSON(env)), NotJson}
        \cup {WithoutMember(toJSON(env), m) : m \in Members}

PartialInit ==
    /\ allowedIntents = GatewayIntents
    /\ registered = GatewayRegistered
    /\ trustScores = GatewayTrust
    /\ env = BaseEnvelope
    /\ stamped = BaseSections
    /\ now = 2800
    /\ res = NoResult
    /\ last = NoOp
    /\ run = EmptyMap
    /\ steps = 0
    /\ words = EmptyMap
    /\ noise = NoNoise
    /\ sent = {}
    /\ lastReg = NoRegistration
    /\ made = NotMade
    /\ tasks = NoTasks
    /\ applied = <<>>

PartialNext ==
    \/ Counted /\ \E data \in ExchangeObjects : FromObject(data)
    \/ Counted /\ \E json \in ExchangeTexts : FromJSON(json)
    \/ Stamp /\ UNCHANGED steps
    \/ ComputeCommits
    \/ VerifyCommits
    \/ VerifyFull

PartialSpec == PartialInit /\ [][PartialNext]_vars

-----------------------------------------------------------------------------
(* Construction order: sections whose fields were set in another order *)

\* Positions of a section's fields (ctx has the most, six).
Positions == 1..5

CanonInit ==
    /\ allowedIntents = GatewayIntents
    /\ registered = GatewayRegistered
    /\ trustScores = GatewayTrust
    /\ env = BaseEnvelope
    /\ stamped = BaseSections
    /\ now = 2800
    /\ res = NoResult
    /\ last = NoOp
    /\ run = EmptyMap
    /\ steps = 0
    /\ words = EmptyMap
    /\ noise = NoNoise
    /\ sent = {}
    /\ lastReg = NoRegistration
    /\ made = NotMade
    /\ tasks = NoTasks
    /\ applied = <<>>

CanonNext ==
    \/ Budgeted /\ \E sec \in Sections : \E i \in Positions : Reorder(sec, i)
    \/ Budgeted /\ \E f \in {<<"ctx", "device_id">>, <<"aad", "step_no">>} :
         \E v \in FieldValues(f[1], f[2]) : SetField(f[1], f[2], v)
    \/ Stamp /\ UNCHANGED steps
    \/ Budgeted /\ \E sec \in Sections : Canonicalize(sec)
    \/ VerifyFull

CanonSpec == CanonInit /\ [][CanonNext]_vars

-----------------------------------------------------------------------------
(* The orchestrator: requests that overlap at the provider call *)

\* loadConfiguration's intents
OrchestratorIntents ==
    registerIntent(
        registerIntent(EmptyMap, "fetch", "catalog", 2, <<"github-api">>),
        "process", "analyze", 3, <<"openai", "anthropic">>)

OrchestratorRegistered ==
    MapSet(MapSet(EmptyMap, <<"fetch", "catalog", 2>>, <<"github-api">>),
           <<"process", "analyze", 3>>, <<"openai", "anthropic">>)

\* The providers of the configuration.
Providers == {"openai", "anthropic"}

\* initialTrust of 'openai': the guide's 0.85, and a provider taken in
\* close above the threshold.
InitialTrusts == {850, 320}

\* loadConfiguration's setTrust calls, as the call history records them.
Configured(t) ==
    << [op |-> "setTrust", provider |-> "openai", value |-> t, task |-> 0,
        had |-> FALSE, prev |-> 0, wrote |-> t],
       [op |-> "setTrust", provider |-> "anthropic", value |-> 900,
        task |-> 0, had |-> FALSE, prev |-> 0, wrote |-> 900] >>

LoopInit ==
    /\ allowedIntents = OrchestratorIntents
    /\ registered = OrchestratorRegistered
    /\ \E t \in InitialTrusts :
         /\ trustScores = setTrust(setTrust(EmptyMap, "openai", t),
                                   "anthropic", 900)
         /\ applied = Configured(t)
    /\ env = BaseEnvelope
    /\ stamped = BaseSections
    /\ now = 2800
    /\ res = NoResult
    /\ last = NoOp
    /\ run = EmptyMap
    /\ steps = 0
    /\ words = EmptyMap
    /\ noise = NoNoise
    /\ sent = {}
    /\ lastReg = NoRegistration
    /\ made = NotMade
    /\ tasks = NoTasks

LoopNext ==
    \/ \E route \in Providers : Begin(route)
    \/ \E t \in 1..MaxTasks : \E v \in Validities \ {0} : Respond(t, v)
    \/ \E t \in 1..MaxTasks : Fail(t)
    \/ Budgeted /\ Configure("openai", StartTrust)

LoopSpec == LoopInit /\ [][LoopNext]_vars

-----------------------------------------------------------------------------
(* Frame: verification between registry operations *)

FrameNext ==
    \/ Budgeted /\ \E r \in {"github-api", "rogue"} :
         SetField("aad", "route_hint", r)
    \/ Stamp /\ UNCHANGED steps
    \/ Budgeted /\ \E t \in IntentTriples : \E rs \in RouteLists :
         RegisterIntent(t[1], t[2], t[3], rs)
    \/ Budgeted /\ \E p \in ScoredRoutes : \E t \in TrustValues : SetTrust(p, t)
    \/ Budgeted /\ \E p \in ScoredRoutes : \E v \in Validities :
         UpdateTrust(p, v, DefaultAlpha)
    \/ VerifyFull

FrameSpec == Init /\ [][FrameNext]_vars

-----------------------------------------------------------------------------
(* Phase lock: intents whose angle was given outside 0..359 *)

\* Angles handed to createIntent: in range, negative, and a turn and more.
PhaseAngles == {-260, -1, 100, 180, 359, 541}

\* Angles written into intent.phase_deg as they are, as fromObject does.
RawPhases == {100, 541, 900}

PhaseNext ==
    \/ Budgeted /\ \E a \in PhaseAngles :
         SetIntent("fetch", "catalog", 2 * Unit, a)
    \/ Budgeted /\ \E a \in RawPhases : SetField("intent", "phase_deg", a)
    \/ Stamp /\ UNCHANGED steps
    \/ Budgeted /\ Tick
    \/ VerifyFull

PhaseSpec == TamperInit /\ [][PhaseNext]_vars

-----------------------------------------------------------------------------
(* Vocabulary of the properties *)

AllSectionsSet(e) == \A sec \in Sections : IsSet(e[sec])

Route(e) == Get(e.aad, "route_hint")

Triple(e) ==
    <<Get(e.intent, "primary"), Get(e.intent, "modifier"),
      Get(e.intent, "harmonic")>>

\* The fields whose value differs from the one the commit was computed over.
ChangedFields ==
    {f \in AllFields : Get(env[f[1]], f[2]) # Get(stamped[f[1]], f[2])}

\* The commit the envelope carries is the one computeCommits produced.
CommitIsStamped ==
    /\ IsSet(env.commit)
    /\ env.commit = computeCommits([env EXCEPT !.ctx = stamped.ctx,
                                               !.intent = stamped.intent,
                                               !.trajectory = stamped.trajectory,
                                               !.aad = stamped.aad])

\* The registry's trust score of a route: the stored score, 0.5 when unseen.
RegistryTrust(r) ==
    IF r \in DOMAIN trustScores THEN trustScores[r] ELSE UpdateDefaultTrust

\* The exponential moving average alpha * t + (1 - alpha) * validity.
Ema(t, validity, alpha) == RoundDiv(alpha * t + (Unit - alpha) * validity, Unit)

\* The four mandatory conditions, stated on the envelope and the registry.
SchemaCondition(e) ==
    /\ \A m \in Members : IsSet(e[m])
    /\ e.commit = computeCommits(e)
    /\ \A k \in {"entropy", "server_load", "stability"} :
         0 <= Get(e.ctx, k) /\ Get(e.ctx, k) <= Unit

PolicyCondition(e) ==
    /\ Triple(e) \in DOMAIN registered
    /\ Includes(registered[Triple(e)], Route(e))

\* The circular distance between the expected phase and phase_deg,
\* multiplied by period_s.
CircularDistanceP(e, t) ==
    LET period == Get(e.trajectory, "period_s")
        expectedP == (360 * (t - Get(e.trajectory, "epoch"))) % (360 * period)
        dP == Abs(expectedP - Get(e.intent, "phase_deg") * period)
    IN  Min2(dP, 360 * period - dP)

TrajectoryCondition(e, t) ==
    /\ t >= Get(e.trajectory, "epoch")
    /\ CircularDistanceP(e, t) <= 15 * Get(e.trajectory, "period_s")

TrustCondition(e) == RegistryTrust(Route(e)) >= DefaultMinTrust

\* Two calls were given the same envelope: equal in every member, the
\* cipher_b64 aside, which a call overwrites in the envelope it is given.
SameEnvelope(a, b) ==
    [a EXCEPT !.crypto = With(@, "cipher_b64", "")]
        = [b EXCEPT !.crypto = With(@, "cipher_b64", "")]

Rejections == {a \in sent : a.reason # "(valid)"}

Reasons == {"schema", "intent", "trajectory", "swarm"}

\* The triples asked about: those registered and one that never is.
ProbeTriples == IntentTriples \cup {<<"fetch", "catalog:x", 2>>}

\* The intent gate, under the allow-lists intents, lets an envelope with
\* triple t go to route r.
Permits(intents, t, r) ==
    verifyIntentPolicy(intents,
        [BaseEnvelope EXCEPT
           !.intent = << <<"primary", t[1]>>, <<"modifier", t[2]>>,
                         <<"harmonic", t[3]>>, <<"phase_deg", 180>> >>,
           !.aad = With(@, "route_hint", r)]).valid

-----------------------------------------------------------------------------
(* Properties *)

\* C1: when the commit was produced by computeCommits and exactly one field
\* of ctx, intent, trajectory or aad was changed afterwards without
\* recomputing it, verifyCommits returns false and verifyFull rejects with
\* reason 'schema'.
C1_TamperDetected ==
    (AllSectionsSet(env) /\ CommitIsStamped /\ Cardinality(ChangedFields) = 1)
        => /\ ~verifyCommits(env)
           /\ Called => res = [result |-> Reject("schema"),
                               gates |-> <<"schema">>]

\* C1 witness: route_hint alone was rewritten after stamping (the confused
\* deputy) and verifyFull has rejected the envelope.
C1_Witness ==
    /\ AllSectionsSet(env) /\ CommitIsStamped
    /\ ChangedFields = {<<"aad", "route_hint">>}
    /\ res.result = Reject("schema")

\* C2 (as claimed): verifyFull returns valid exactly when the schema, intent
\* policy, trajectory and trust conditions all hold at the time of the call.
C2_ValidIffAllConditions ==
    Called =>
        (res.result.valid <=>
            /\ SchemaCondition(env)
            /\ PolicyCondition(env)
            /\ TrajectoryCondition(env, now)
            /\ TrustCondition(env))

\* C3: the gates run in the order schema, intent, trajectory, swarm; every
\* gate before the last one evaluated passes, a rejection carries the reason
\* of the last gate evaluated, which fails, and acceptance means all four
\* were evaluated and pass.
C3_FirstFailureInOrder ==
    LET order == <<"schema", "intent", "trajectory", "swarm">>
        n == Len(res.gates)
        fails(g) ==
            CASE g = "schema" -> ~verifySchema(env).valid
              [] g = "intent" -> ~verifyIntentPolicy(allowedIntents, env).valid
              [] g = "trajectory" -> ~verifyTrajectory(env, now).valid
              [] g = "swarm" ->
                   ~verifySwarmTrust(trustScores, Route(env),
                                     DefaultMinTrust).valid
    IN  Called =>
          /\ res.gates = SubSeq(order, 1, n)
          /\ \A i \in 1..(n - 1) : ~fails(order[i])
          /\ res.result.valid => n = 4 /\ ~fails(order[4])
          /\ ~res.result.valid =>
                fails(order[n]) /\ res.result.reason = order[n]

\* C3 witness: the trajectory gate and the trust gate both fail; the
\* rejection is 'trajectory' and the trust gate was not evaluated.
C3_Witness ==
    /\ res = [result |-> Reject("trajectory"),
              gates |-> <<"schema", "intent", "trajectory">>]
    /\ ~verifySwarmTrust(trustScores, Route(env), DefaultMinTrust).valid

\* C4 (as claimed): the intent gate rejects with 'intent' exactly the
\* envelopes whose route is not in the list registered for their
\* (primary, modifier, harmonic) triple, never-registered triples included.
C4_IntentGateFollowsRegistration ==
    (IsSet(env.intent) /\ IsSet(env.aad)) =>
        /\ ~PolicyCondition(env) =>
              verifyIntentPolicy(allowedIntents, env) = Reject("intent")
        /\ PolicyCondition(env) =>
              verifyIntentPolicy(allowedIntents, env) = Valid

\* C5: the trajectory gate rejects with 'trajectory' before the epoch; from
\* the epoch on it accepts exactly when the circular distance between the
\* expected phase and phase_deg is at most 15 degrees (inclusive: half a
\* period of 3600 in, 180 and 195 pass and 196 does not); verifyFull stops at
\* the trajectory gate exactly when it rejects.
C5_TrajectoryGate ==
    AllSectionsSet(env) =>
        LET epoch == Get(env.trajectory, "epoch")
            period == Get(env.trajectory, "period_s")
            phase == Get(env.intent, "phase_deg")
            gate == verifyTrajectory(env, now)
        IN  /\ now < epoch => gate = Reject("trajectory")
            /\ now >= epoch =>
                 /\ gate.valid <=> CircularDistanceP(env, now) <= 15 * period
                 /\ ~gate.valid => gate = Reject("trajectory")
            /\ (period = 3600 /\ now - epoch = 1800) =>
                 /\ phase \in {180, 195} => gate.valid
                 /\ phase = 196 => ~gate.valid
            /\ (Called /\ Len(res.gates) >= 3) =>
                 (Len(res.gates) = 3 <=> ~gate.valid)

\* C5 witness: half a period in, an envelope with phase_deg 195 (exactly the
\* tolerance away from 180) has been accepted.
C5_Witness ==
    /\ AllSectionsSet(env)
    /\ Get(env.trajectory, "period_s") = 3600
    /\ now - Get(env.trajectory, "epoch") = 1800
    /\ Get(env.intent, "phase_deg") = 195
    /\ Called /\ res.result.valid

\* C6 (as claimed): an envelope that reaches the trajectory gate with ctx.ts
\* before trajectory.epoch is rejected with reason 'trajectory'.
C6_RolledBackTsRejected ==
    (Called /\ Len(res.gates) >= 3
        /\ Get(env.ctx, "ts") < Get(env.trajectory, "epoch"))
        => res.result = Reject("trajectory")

\* C7 (as claimed): the trust gate rejects with 'swarm' exactly when the
\* registry trust of the route is below 0.3, and verifyFull accepts no
\* envelope whose route has trust below 0.3.
C7_SwarmGateThreshold ==
    IsSet(env.aad) =>
        LET gate == verifySwarmTrust(trustScores, Route(env), DefaultMinTrust)
        IN  /\ gate = Reject("swarm")
                <=> RegistryTrust(Route(env)) < DefaultMinTrust
            /\ gate = Valid <=> RegistryTrust(Route(env)) >= DefaultMinTrust
            /\ (Called /\ res.result.valid)
                => RegistryTrust(Route(env)) >= DefaultMinTrust

\* C8 (as claimed): a route never passed to setTrust or updateTrust counts
\* as 0.5 for every reader: updateTrust averages from 0.5 and the trust gate
\* lets the route pass the 0.3 threshold.
C8_UnseenRouteIsHalf ==
    /\ \A r \in Routes \ DOMAIN trustScores :
         verifySwarmTrust(trustScores, r, DefaultMinTrust) = Valid
    /\ (last.op = "updateTrust" /\ ~last.had) =>
         trustScores[last.provider]
             = Ema(UpdateDefaultTrust, last.validity, last.alpha)

\* C9 (as claimed): updateTrust on a route with a stored trust t, 0
\* included, stores alpha * t + (1 - alpha) * validity.
C9_UpdateIsEmaOfStored ==
    (last.op = "updateTrust" /\ last.had) =>
        trustScores[last.provider]
            = Ema(last.prev, last.validity, last.alpha)

\* C10: after setTrust(route, 0.85) and twenty consecutive
\* updateTrust(route, 0.0, 0.9) the route's trust is below 0.3; and whenever
\* verifyFull reaches the trust gate for a route whose stored trust is below
\* 0.3, it rejects with reason 'swarm'.
C10_DecayExcludes ==
    /\ \A r \in DOMAIN run :
         (run[r].start = StartTrust /\ run[r].n = DecaySteps)
             => trustScores[r] < DefaultMinTrust
    /\ (Called /\ Len(res.gates) = 4 /\ Route(env) \in DOMAIN trustScores
            /\ trustScores[Route(env)] < DefaultMinTrust)
         => res.result = Reject("swarm")

\* C10 witness: twenty zero-validity updates after setTrust(route, 0.85),
\* and verifyFull has rejected an envelope for the route with 'swarm'.
C10_Witness ==
    /\ DecayRoute \in DOMAIN run
    /\ run[DecayRoute] = [start |-> StartTrust, n |-> DecaySteps]
    /\ Route(env) = DecayRoute
    /\ res.result = Reject("swarm")

\* C11: after any sequence of setTrust calls with a score in [0,1] and
\* updateTrust calls with validity and alpha in [0,1], every stored trust
\* score lies in [0,1]; updateTrust(route, 1.0) never pushes it above 1.0.
C11_TrustInUnitInterval ==
    \A r \in DOMAIN trustScores : 0 <= trustScores[r] /\ trustScores[r] <= Unit

\* C11 witness: a route already at 1.0 was updated with validity 1.0 and a
\* fractional alpha, and is still at 1.0.
C11_Witness ==
    /\ last.op = "updateTrust" /\ last.had /\ last.prev = Unit
    /\ last.validity = Unit /\ last.alpha = DefaultAlpha
    /\ trustScores[last.provider] = Unit

\* C12 (as claimed): for every envelope that verifyFull rejects, a missing
\* commit or crypto included, generateNoiseResponse returns a noise envelope
\* instead of failing.
C12_EveryRejectionGetsNoise ==
    (noise.called /\ noise.rejected) => ~noise.threw

\* C13: for the same envelope and seed, rejections at different gates are
\* answered with identical noise responses of identical length.
C13_NoiseHidesTheGate ==
    \A a, b \in Rejections :
        (SameEnvelope(a.input, b.input) /\ a.seed = b.seed)
            => a.response = b.response /\ a.length = b.length

\* C13 witness: the same envelope was rejected once by the trajectory gate
\* and once by the trust gate, and answered with the same seed.
C13_Witness ==
    \E a, b \in Rejections :
        /\ SameEnvelope(a.input, b.input) /\ a.seed = b.seed
        /\ a.reason = "trajectory" /\ b.reason = "swarm"

\* C14: two generateNoiseResponse calls with the same envelope and seed put
\* the same noise into crypto.cipher_b64, whatever the registry, the time
\* and the calls made before.
C14_NoiseDeterministic ==
    \A a, b \in sent :
        (SameEnvelope(a.input, b.input) /\ a.seed = b.seed)
            => Get(a.response.crypto, "cipher_b64")
                   = Get(b.response.crypto, "cipher_b64")

\* C14 witness: a second call with the envelope and seed of an earlier one,
\* made after the clock advanced.
C14_Witness ==
    /\ now # 2800
    /\ \E a, b \in sent :
        /\ a # b /\ SameEnvelope(a.input, b.input) /\ a.seed = b.seed
        /\ ~noise.threw /\ noise.seed = a.seed

\* C15: the noise of every response is between 4096 and 8191 bytes long.
C15_NoiseLengthInBand ==
    /\ \A a \in sent : 4096 <= a.length /\ a.length <= 8191
    /\ (noise.called /\ ~noise.threw) =>
         (4096 <= noise.length /\ noise.length <= 8191)

\* C15 witness: responses at both ends of the band have been returned.
C15_Witness ==
    \E a, b \in sent : a.length = 4096 /\ b.length = 8191

\* C16: the object generateNoiseResponse returns equals the object form of
\* the envelope it was given in ver, ctx, intent, trajectory, aad, commit,
\* sig and every crypto field except cipher_b64, which holds the noise.
C16_NoiseCarriesEnvelope ==
    (noise.called /\ ~noise.threw) =>
        LET in == noise.input
            out == noise.response
        IN  /\ out.ver = in.ver /\ out.ctx = in.ctx /\ out.intent = in.intent
            /\ out.trajectory = in.trajectory /\ out.aad = in.aad
            /\ out.commit = in.commit
            /\ out.sig = IF IsSet(in.sig) THEN in.sig ELSE NullSig
            /\ Len(out.crypto) = Len(in.crypto)
            /\ \A i \in 1..Len(in.crypto) :
                 /\ out.crypto[i][1] = in.crypto[i][1]
                 /\ in.crypto[i][1] # "cipher_b64"
                      => out.crypto[i][2] = in.crypto[i][2]
            /\ Get(out.crypto, "cipher_b64")
                 = NoiseB64(NoiseSeed(in, noise.seed), noise.length)

\* C16 witness: a rejected envelope without signatures was answered; its
\* ciphertext is not the one the response carries.
C16_Witness ==
    /\ noise.called /\ ~noise.threw /\ noise.rejected
    /\ ~IsSet(noise.input.sig)
    /\ Get(noise.response.crypto, "cipher_b64")
         # Get(noise.input.crypto, "cipher_b64")

\* C17: the schema gate rejects with 'schema' every envelope with a
\* section absent, a commit that differs from the recomputed one, or
\* entropy, server_load or stability outside [0,1], and passes every other
\* envelope; verifyFull rejects the former with 'schema'.
C17_SchemaGate ==
    /\ verifySchema(env)
         = IF SchemaCondition(env) THEN Valid ELSE Reject("schema")
    /\ (Called /\ ~SchemaCondition(env)) => res.result = Reject("schema")

\* C17 witness: a complete envelope whose commit matches but whose
\* server_load is below 0 has been rejected with 'schema'.
C17_Witness ==
    /\ \A m \in Members : IsSet(env[m])
    /\ env.commit = computeCommits(env)
    /\ Get(env.ctx, "server_load") < 0
    /\ Get(env.ctx, "entropy") <= Unit /\ Get(env.ctx, "stability") <= Unit
    /\ res.result = Reject("schema")

\* C18: verifyFull rejects only with the reasons 'schema', 'intent',
\* 'trajectory', 'swarm', each the reason of the one gate of that name and
\* of no other gate, and its result is the same whatever the crypto and sig
\* members contain.
C18_ExtensionGatesPassThrough ==
    /\ Called =>
         /\ res.result.valid \/ res.result.reason \in Reasons
         /\ ~res.result.valid => res.result.reason = res.gates[Len(res.gates)]
         /\ IsSet(env.crypto) =>
              res = verifyFull(allowedIntents, trustScores,
                               [env EXCEPT !.crypto = BaseCrypto,
                                           !.sig = BaseSig], now)
    /\ verifySchema(env) \in {Valid, Reject("schema")}
    /\ AllSectionsSet(env) =>
         /\ verifyIntentPolicy(allowedIntents, env)
              \in {Valid, Reject("intent")}
         /\ verifyTrajectory(env, now) \in {Valid, Reject("trajectory")}
         /\ verifySwarmTrust(trustScores, Route(env), DefaultMinTrust)
              \in {Valid, Reject("swarm")}

\* C18 witness: an envelope with other crypto parameters and no signatures
\* has been accepted.
C18_Witness ==
    /\ Called /\ res.result.valid
    /\ IsSet(env.crypto) /\ env.crypto # BaseCrypto
    /\ ~IsSet(env.sig)

\* C19 (as claimed): after registerIntent(primary, modifier, harmonic,
\* allowedRoutes) the triple is permitted exactly the routes of
\* allowedRoutes, every other triple is permitted what it was permitted
\* before, and the trust scores are as before.
C19_RegisterReplacesOneKey ==
    (last.op = "registerIntent" /\ lastReg.called) =>
        /\ \A r \in Routes :
             Permits(allowedIntents, lastReg.triple, r)
                 <=> Includes(lastReg.routes, r)
        /\ \A t \in ProbeTriples \ {lastReg.triple} : \A r \in Routes :
             Permits(allowedIntents, t, r) <=> Permits(lastReg.intents, t, r)
        /\ trustScores = lastReg.scores

\* C20 (as claimed): createContext returns threat_level in 1..5 and
\* entropy, server_load, stability in [0,1]; createIntent returns harmonic
\* in 1..7 and phase_deg in 0..359, for negative angles too.
C20_CodecClampsAndWraps ==
    /\ made.op = "createContext" =>
         /\ Get(made.value, "threat_level") \in 1..5
         /\ \A k \in {"entropy", "server_load", "stability"} :
              0 <= Get(made.value, k) /\ Get(made.value, k) <= Unit
    /\ made.op = "createIntent" =>
         /\ Get(made.value, "harmonic") \in 1..7
         /\ Get(made.value, "phase_deg") \in 0..359

\* Sections a call was given an envelope without.
AbsentSections(e) == {sec \in Sections : ~IsSet(e[sec])}

\* C21 (as claimed): computeCommits fails with an error whenever one of
\* ctx, intent, trajectory, aad is absent, and leaves the envelope as it
\* was; verifyCommits on an envelope that has a commit but lacks a section
\* returns false and does not raise.
C21_IncompleteEnvelopeHandled ==
    /\ (made.op = "computeCommits" /\ AbsentSections(made.args[1]) # {}) =>
         made.value.threw /\ env = made.args[1]
    /\ (made.op = "verifyCommits" /\ IsSet(made.args[1].commit)
            /\ AbsentSections(made.args[1]) # {}) =>
         ~made.value.threw /\ made.value.value = FALSE

\* The object fromObject or fromJSON was asked to turn into an envelope.
ParsedInput ==
    IF made.op = "fromJSON" THEN JsonParse(made.args[1]) ELSE made.args[1]

\* C22 (as claimed): fromObject and fromJSON fail with a MalformedEnvelope
\* error whenever the input lacks one of the mandatory sections ctx, intent,
\* trajectory, aad, and never return an envelope with such a section
\* missing.
C22_ParseRejectsMissingSection ==
    (/\ made.op \in {"fromObject", "fromJSON"}
     /\ made.op = "fromJSON" => made.args[1].wellFormed
     /\ AbsentSections(ParsedInput) # {}) =>
        /\ made.value.threw
        /\ made.value.error = "MalformedEnvelope"
        /\ AbsentSections(env) = {}

\* C29: verifyFull on an envelope that lacks any of ctx, intent, trajectory,
\* aad, commit, crypto returns a result, invalid with reason 'schema', after
\* the schema gate alone, and does not raise.
C29_VerifyFullTotal ==
    (Called /\ \E m \in Members : ~IsSet(env[m])) =>
        /\ res # Raised
        /\ res.result = Reject("schema")
        /\ res.gates = <<"schema">>

\* verifyFull was given an envelope that has a commit but neither ctx nor
\* crypto, the envelope on which recomputing the commits would throw.
C29_Witness ==
    /\ Called
    /\ IsSet(env.commit) /\ ~IsSet(env.ctx) /\ ~IsSet(env.crypto)
    /\ res.result = Reject("schema")

\* Two objects with the same field names and values, in whatever order.
SameFields(a, b) ==
    /\ Len(a) = Len(b)
    /\ Keys(a) = Keys(b)
    /\ \A k \in Keys(a) : Get(a, k) = Get(b, k)

CommitName(sec) ==
    CASE sec = "ctx" -> "ctx_sha256"
      [] sec = "intent" -> "intent_sha256"
      [] sec = "trajectory" -> "traj_sha256"
      [] sec = "aad" -> "aad_sha256"

\* C23: a section with the same field names and values as the section that
\* was committed, its fields set in whatever order, canonicalizes to the
\* same string and gets the same commitment hash; an envelope all of whose
\* sections are such passes verifyCommits against the stamped commit.
C23_CanonicalizeOrderInvariant ==
    /\ \A sec \in Sections :
         SameFields(env[sec], stamped[sec]) =>
            /\ canonicalize(env[sec]) = canonicalize(stamped[sec])
            /\ Get(computeCommits(env), CommitName(sec))
                 = sha256Hex(canonicalize(stamped[sec]))
    /\ \A sec \in Sections :
         (made.op = "canonicalize" /\ SameFields(made.args[1], stamped[sec]))
            => made.value.value = canonicalize(stamped[sec])
    /\ (CommitIsStamped /\ \A sec \in Sections :
                              SameFields(env[sec], stamped[sec]))
            => verifyCommits(env)

\* canonicalize was called on a ctx whose fields are in another order than
\* those of the committed ctx, their values the same, and the envelope was
\* verified.
C23_Witness ==
    /\ made.op = "canonicalize"
    /\ made.args[1] = env.ctx
    /\ env.ctx # stamped.ctx
    /\ SameFields(env.ctx, stamped.ctx)
    /\ CommitIsStamped
    /\ Called /\ res.result.valid

\* One call of the history applied to a trust table.
ApplyWrite(scores, w) ==
    IF w.op = "setTrust" THEN setTrust(scores, w.provider, w.value)
    ELSE updateTrust(scores, w.provider, w.value, DefaultAlpha)

\* The calls ws applied one after another, each to the table the one before
\* it left.
RECURSIVE Serial(_, _)
Serial(scores, ws) ==
    IF ws = <<>> THEN scores ELSE Serial(ApplyWrite(scores, Head(ws)), Tail(ws))

\* The calls made on the route r, in the order they ran.
OnRoute(r) == SelectSeq(applied, LAMBDA w : w.provider = r)

\* The request t has made its updateTrust call.
Finished(t) == tasks[t].pc \in {"returned", "threw"}

\* C24: with several requests under way at once, the trust table is the
\* one that results from applying the setTrust / updateTrust calls one
\* after another in the order they ran; every request that got past its
\* provider call has exactly one update in that order and no other request
\* has any (no update is lost); and the trust of a route is the result of
\* the calls made on that route alone.
C24_UpdatesSerialized ==
    /\ trustScores = Serial(EmptyMap, applied)
    /\ \A r \in Providers : trustScores[r] = Serial(EmptyMap, OnRoute(r))[r]
    /\ \A t \in DOMAIN tasks :
         Cardinality({i \in DOMAIN applied : applied[i].task = t})
             = IF Finished(t) THEN 1 ELSE 0
    /\ \A i \in DOMAIN applied :
         applied[i].task # 0 =>
             applied[i].provider = tasks[applied[i].task].provider

\* Two requests for the same provider were both waiting for it before
\* either updated its trust, both have updated it since, and the second
\* update found another score than the one its request had seen.
C24_Witness ==
    \E t1, t2 \in DOMAIN tasks :
        /\ t1 # t2
        /\ tasks[t1].provider = tasks[t2].provider
        /\ Finished(t1) /\ Finished(t2)
        /\ tasks[t1].began = tasks[t2].began
        /\ \E i \in DOMAIN applied :
             /\ applied[i].task = t2
             /\ applied[i].prev # tasks[t2].seen

\* C30 (as claimed): updateTrust for a route is called only by a request
\* whose envelope for that route verifyFull accepted, and an updateTrust
\* that finds the route's trust below 0.3 leaves it as it is: once below the
\* threshold the trust changes only through setTrust.
C30_ExclusionIsPermanent ==
    \A i \in DOMAIN applied :
        applied[i].op = "updateTrust" =>
            /\ applied[i].task \in DOMAIN tasks
            /\ tasks[applied[i].task].provider = applied[i].provider
            /\ tasks[applied[i].task].seen >= DefaultMinTrust
            /\ (applied[i].had /\ applied[i].prev < DefaultMinTrust) =>
                  applied[i].wrote = applied[i].prev

\* The trust table's entry for the route r: whether it has one, and which.
Entry(scores, r) == IF r \in DOMAIN scores THEN <<TRUE, scores[r]>>
                    ELSE <<FALSE, 0>>

\* C25: a verifyFull call, accepting or rejecting, leaves the trust table,
\* the allow-lists and the envelope as they were; the trust table changes
\* only in a setTrust or updateTrust call and then only in the entry of the
\* route the call names; the allow-lists change only in a registerIntent
\* call.
C25_VerificationReadOnly ==
    [][/\ (res = NoResult /\ res' # NoResult) =>
             /\ allowedIntents' = allowedIntents
             /\ trustScores' = trustScores
             /\ env' = env
       /\ trustScores' # trustScores =>
             /\ last'.op \in {"setTrust", "updateTrust"}
             /\ \A r \in Routes \ {last'.provider} :
                  Entry(trustScores', r) = Entry(trustScores, r)
             /\ allowedIntents' = allowedIntents
       /\ allowedIntents' # allowedIntents =>
             /\ last'.op = "registerIntent"
             /\ lastReg'.intents = allowedIntents
             /\ trustScores' = trustScores]_vars

\* verifyFull accepted an envelope after a setTrust call on another route
\* than the envelope's, on a table that holds scores for both.
C25_Witness ==
    /\ Called /\ res.result.valid
    /\ last.op = "setTrust"
    /\ last.provider # Route(env)
    /\ {last.provider, Route(env)} \subseteq DOMAIN trustScores

\* The envelope with phase_deg replaced by the equivalent angle in 0..359.
WrappedPhase(e) ==
    [e EXCEPT !.intent = With(@, "phase_deg", Get(@, "phase_deg") % 360)]

\* C26 (as claimed): when the trajectory gate is reached with a phase_deg
\* outside 0..359, it decides as it would for the equivalent angle in
\* 0..359; in particular it accepts only if that angle would be accepted.
C26_PhaseModulo360 ==
    (/\ Called
     /\ Len(res.gates) >= 3
     /\ Get(env.intent, "phase_deg") \notin 0..359) =>
        (verifyTrajectory(env, now).valid
            <=> verifyTrajectory(WrappedPhase(env), now).valid)

\* C27 (as claimed): after any sequence of registerIntent calls the intent
\* gate permits a triple (p, m, h) only the routes of the latest
\* registration made for exactly that triple, and none when there was no
\* such registration, also for a primary or modifier that contains ':'.
C27_TriplesDoNotShareLists ==
    \A t \in ProbeTriples : \A r \in Routes :
        Permits(allowedIntents, t, r) =>
            /\ t \in DOMAIN registered
            /\ Includes(registered[t], r)

\* C28 (as claimed): generateNoiseResponse leaves the envelope it is given
\* as it was, crypto.cipher_b64 included: after a call the envelope's crypto
\* is the one the call was given, and every call, whatever came before it,
\* is given the crypto the envelope was built with.  (No other operation of
\* the fail-to-noise run writes into crypto.)
C28_NoiseLeavesInputUnchanged ==
    /\ (noise.called /\ ~noise.threw /\ IsSet(env.crypto)) =>
          env.crypto = noise.input.crypto
    /\ \A a \in sent : a.input.crypto = BaseCrypto

=============================================================================
